---------------------------- MODULE Spec2Model ----------------------------
(***************************************************************************)
(* Zone counting and periodic persistence of                               *)
(* src/src/components/features/track_box.py (classes Box and TrackBox)     *)
(* with the tuple coercion of src/src/modules/utils.py.                    *)
(*                                                                         *)
(* One TrackBox object is modelled.  Its boxes are fixed at construction.   *)
(* The methods a caller of TrackBox uses (check, update, apply and          *)
(* config_save) are one action each; TrackBox.save and the methods of Box,  *)
(* which update, check and apply call, are operators, and their direct      *)
(* calls are the actions Save, BoxCheck and BoxUpdate of SpecD.             *)
(* The file at save_path is the sequence `log' of the pieces of text that   *)
(* reached it, header first.  A piece is what one f.write left in the file  *)
(* (a string, the line ending included) and which write produced it; a      *)
(* write that raised may have left any prefix of its text, byte by byte.    *)
(* An integer is written as its decimal numeral (str in the code, ToString  *)
(* here).                                                                   *)
(***************************************************************************)
EXTENDS Integers, Sequences, FiniteSets, TLC

VARIABLES
    built,      \* TrackBox.__init__ returned: the object exists
    boxes,      \* TrackBox.boxes: per box its name, xyxy and deque maxlen
    count,      \* Box.count of every box
    history,    \* Box.history of every box (a deque with maxlen)
    enabled,    \* hasattr(self, "save_conf")
    save_conf,  \* TrackBox.save_conf (meaningful only when enabled)
    time,       \* TrackBox.time (meaningful only when enabled)
    log,        \* the file at save_path: the pieces written, header first
    err,        \* exception raised by the most recent call, "none" if it returned
    fed,        \* observer: the counts each Box.update() appended, in order
    calls,      \* observer: number of TrackBox.update() calls since config_save
    rowCalls,   \* observer: the values of `calls' at which a row was written
    lastPos,    \* observer: the argument of the check() just made, if any
    prevCount   \* observer: the counts before that check()

vars == <<built, boxes, count, history, enabled, save_conf, time, log, err,
          fed, calls, rowCalls, lastPos, prevCount>>

observer == <<fed, calls, rowCalls, lastPos, prevCount>>

---------------------------------------------------------------------------
(* Bounds of the explored state space.                                     *)

\* largest Box.count explored under Spec
MaxCount == 1
\* largest TrackBox.time at which update() is still called under Spec
MaxTime == 4
\* largest number of data rows in the file under Spec
MaxRows == 1
\* largest number of bytes a write that raised is taken to have written
\* (no text written under SpecF is longer, so every tear of it is drawn)
MaxTear == 11

\* coordinates of the positions passed to check()
Coord == -1 .. 3

\* readings of datetime.now().strftime("%H:%M:%S")
Clock == {"09:00:00", "09:00:01"}

---------------------------------------------------------------------------
(* Construction inputs.                                                    *)

\* two boxes that overlap in the corner point (1,1):
\* a = (0,0)-(1,1) smoothness 2, b = (1,1)-(2,2) smoothness 1
OverlapBoxes ==
    << [name |-> "a", xyxy |-> <<0, 0, 1, 1>>, maxlen |-> 2],
       [name |-> "b", xyxy |-> <<1, 1, 2, 2>>, maxlen |-> 1] >>

BoxIds == 1 .. Len(boxes)

\* save_conf before config_save: the attribute does not exist
NoConf == [interval |-> 0, fps |-> 0, speed |-> 0, camera |-> FALSE]

---------------------------------------------------------------------------
(* utils.tuple_handler(value, max_dim=2).  A position input is             *)
(* [scalar, v]: an int n is [scalar |-> TRUE, v |-> <<n>>], a list or      *)
(* tuple is [scalar |-> FALSE, v |-> its elements].                        *)

tuple_handler(value) ==
    LET output == IF value.scalar THEN <<value.v[1], value.v[1]>> ELSE value.v
    IN  IF Len(output) # 2
        THEN [err |-> "ValueError", out |-> <<>>]
        ELSE [err |-> "none", out |-> output]

---------------------------------------------------------------------------
(* class Box                                                               *)

\* variant of Contains: the bounds taken exclusive
Contains_Strict(xyxy, X, Y) ==
    (xyxy[1] < X /\ X < xyxy[3]) /\ (xyxy[2] < Y /\ Y < xyxy[4])

\* Box.check: the containment test of line 66
Contains(xyxy, X, Y) ==
    (xyxy[1] <= X /\ X <= xyxy[3]) /\ (xyxy[2] <= Y /\ Y <= xyxy[4])

\* Box.check on one box: the new count
Box_check(box, c, XY) ==
    IF Contains(box.xyxy, XY[1], XY[2]) THEN c + 1 ELSE c

\* variant of deque_append: an unbounded list, nothing is dropped
deque_append_Unbounded(h, x, maxlen) == Append(h, x)

\* variant of deque_append: when full, the newest entry is replaced
deque_append_DropNewest(h, x, maxlen) ==
    IF Len(h) < maxlen THEN Append(h, x)
    ELSE IF maxlen = 0 THEN <<>>
    ELSE Append(SubSeq(h, 1, Len(h) - 1), x)

\* deque(maxlen).append: drops from the left when full
deque_append(h, x, maxlen) ==
    IF Len(h) < maxlen THEN Append(h, x)
    ELSE IF maxlen = 0 THEN <<>>
    ELSE Append(Tail(h), x)

\* variant of Box_update: a frame that counted nothing is not recorded
Box_update_SkipZero(box, h, c) ==
    IF c = 0 THEN h ELSE deque_append(h, c, box.maxlen)

\* Box.update, line 70: the new history
Box_update(box, h, c) == deque_append(h, c, box.maxlen)

\* variant of Box_reset: the count is carried into the next frame
Box_reset_Keep(c) == c

\* Box.update, line 71: the new count
Box_reset(c) == 0

RECURSIVE Sum(_)
Sum(h) == IF h = <<>> THEN 0 ELSE Head(h) + Sum(Tail(h))

\* variant of get_value: the mean rounded to nearest instead of truncated
get_value_Rounded(h) ==
    IF Len(h) = 0
    THEN [err |-> "ValueError", val |-> -1]
    ELSE [err |-> "none", val |-> (2 * Sum(h) + Len(h)) \div (2 * Len(h))]

\* Box.get_value: int(np.mean(history)).  np.mean of an empty deque is nan
\* and int(nan) raises ValueError: err names the exception and val is then
\* no return value.  The entries are >= 0, so int() truncates like \div.
get_value(h) ==
    IF Len(h) = 0
    THEN [err |-> "ValueError", val |-> -1]
    ELSE [err |-> "none", val |-> Sum(h) \div Len(h)]

---------------------------------------------------------------------------
(* class TrackBox                                                          *)

\* the keys a box entry must have: the arguments of Box.__init__ (lines
\* 14-18) that TrackBox.new (lines 126-130) does not supply itself
RequiredKeys == {"name", "top_left", "bottom_right", "smoothness", "color"}

\* Box.__init__ called by TrackBox.new with Box(**config, ...).  A box entry
\* is [given, name, top_left, bottom_right, smoothness], given being the keys
\* the entry has: a missing key, an unknown key or a key TrackBox.new passes
\* itself raises TypeError before the body runs; a corner of any length is
\* accepted, xyxy being the two corners concatenated (line 39);
\* deque([], maxlen=smoothness) raises ValueError for a negative smoothness
\* (line 40); pt1, pt2 are the corners as given (lines 43-44).  The color is
\* only passed on to the drawing.
Box_init(config) ==
    IF config.given # RequiredKeys
    THEN [err |-> "TypeError"]
    ELSE IF config.smoothness < 0
    THEN [err |-> "ValueError"]
    ELSE [err |-> "none",
          box |-> [name |-> config.name,
                   xyxy |-> config.top_left \o config.bottom_right,
                   maxlen |-> config.smoothness,
                   pt1 |-> config.top_left, pt2 |-> config.bottom_right]]

\* TrackBox.__init__ raised exc: there is no object to call
NotConstructed(exc) ==
    /\ built = FALSE
    /\ boxes = <<>> /\ count = <<>> /\ history = <<>>
    /\ enabled = FALSE /\ save_conf = NoConf /\ time = 0 /\ log = <<>>
    /\ err = exc
    /\ fed = <<>> /\ calls = 0 /\ rowCalls = <<>>
    /\ lastPos = [scalar |-> FALSE, v |-> <<>>] /\ prevCount = <<>>

\* TrackBox.__init__: the state after construction from the box list bs
Constructed(bs) ==
    /\ built = TRUE
    /\ boxes = bs
    /\ count = [b \in 1 .. Len(bs) |-> 0]
    /\ history = [b \in 1 .. Len(bs) |-> <<>>]
    /\ enabled = FALSE
    /\ save_conf = NoConf
    /\ time = 0
    /\ log = <<>>
    /\ err = "none"
    /\ fed = [b \in 1 .. Len(bs) |-> <<>>]
    /\ calls = 0
    /\ rowCalls = <<>>
    /\ lastPos = [scalar |-> FALSE, v |-> <<>>]
    /\ prevCount = [b \in 1 .. Len(bs) |-> 0]

\* TrackBox.check(pos): the boxes check pos in order.  Box.check raises
\* ValueError when self.xyxy does not unpack into four values (line 62) or
\* pos is malformed (line 64); the boxes before the first one that raises
\* have counted, the others have not.  A malformed pos raises in the first box.
Check(pos) ==
    LET th == tuple_handler(pos)
        raising == {b \in BoxIds : Len(boxes[b].xyxy) # 4 \/ th.err # "none"}
        first == IF raising = {} THEN Len(boxes) + 1
                 ELSE CHOOSE b \in raising : \A c \in raising : b <= c
    IN  /\ err' = IF raising = {} THEN "none" ELSE "ValueError"
        /\ count' = [b \in BoxIds |->
                        IF b < first THEN Box_check(boxes[b], count[b], th.out)
                        ELSE count[b]]
        /\ UNCHANGED <<built, boxes, history, enabled, save_conf, time, log>>

\* TrackBox.apply(image): every box draws str(get_value()); the image is
\* not modelled, only the exception of the first box whose history is empty
Apply ==
    /\ err' = IF \E b \in BoxIds : get_value(history[b]).err # "none"
              THEN "ValueError" ELSE "none"
    /\ UNCHANGED <<built, boxes, count, history, enabled, save_conf, time, log>>

\* ','.join(xs) of line 187 and line 217: the join of nothing is empty
RECURSIVE JoinComma(_)
JoinComma(xs) ==
    IF xs = <<>> THEN ""
    ELSE IF Len(xs) = 1 THEN xs[1]
    ELSE xs[1] \o "," \o JoinComma(Tail(xs))

\* the I/O of a call that opens the file and writes one text: it succeeds,
\* or open() raises OSError with the file as it was, or the write (or the
\* flush at close) raises OSError after `bytes' bytes of the text reached
\* the file, all of it when the text is no longer than that
NoFail == [at |-> "none", bytes |-> 0]
OpenFail == [at |-> "open", bytes |-> 0]
WriteFails == { [at |-> "write", bytes |-> k] : k \in 0 .. MaxTear }
Failures == {OpenFail} \cup WriteFails

\* what f.write(text) leaves in the file, kind being the write that made it
\* ("header" or "row")
Written(kind, text, fail) ==
    IF fail.at = "none"
    THEN << [kind |-> kind, text |-> text] >>
    ELSE IF fail.at = "open" \/ fail.bytes = 0
    THEN << >>
    ELSE LET k == IF fail.bytes < Len(text) THEN fail.bytes ELSE Len(text)
         IN  << [kind |-> kind, text |-> SubSeq(text, 1, k)] >>

\* the header text written by config_save (lines 186-188)
Header(camera) ==
    (IF camera THEN "time" ELSE "second") \o ","
        \o JoinComma([b \in BoxIds |-> boxes[b].name]) \o "\n"

\* TrackBox.config_save(save_path, interval, fps, speed, camera).  When
\* open(save_path, "w") raises, nothing has changed; once it has returned the
\* file is truncated, and a write that raises leaves what it wrote of the
\* header while lines 190-197 never run
ConfigSave(interval, fps, speed, camera, fail) ==
    /\ IF fail.at = "open"
       THEN /\ err' = "OSError"
            /\ UNCHANGED <<enabled, save_conf, time, log>>
       ELSE IF fail.at = "write"
       THEN /\ err' = "OSError"
            /\ log' = Written("header", Header(camera), fail)
            /\ UNCHANGED <<enabled, save_conf, time>>
       ELSE /\ err' = "none"
            /\ log' = Written("header", Header(camera), fail)
            /\ time' = 0
            /\ save_conf' = [interval |-> interval, fps |-> fps,
                             speed |-> IF speed > 1 THEN speed ELSE 1,
                             camera |-> camera]
            /\ enabled' = TRUE
    /\ UNCHANGED <<built, boxes, count, history>>

\* line 203: current = int(time * speed) / fps, kept as the exact fraction
current(t, conf) == [num |-> t * conf.speed, den |-> conf.fps]

\* lines 203 and 206: ZeroDivisionError of the division by fps, or of the
\* float modulo by interval (evaluated only when time != 0)
SaveRaises(t, conf) == conf.fps = 0 \/ (t # 0 /\ conf.interval = 0)

\* variant of IsDue: current truncated to an integer before the modulo
IsDue_TruncFirst(t, conf) ==
    t # 0 /\ ((current(t, conf).num \div current(t, conf).den) % conf.interval) = 0

\* variant of IsDue: the time != 0 test left out
IsDue_NoFirstTest(t, conf) ==
    /\ conf.interval # 0
    /\ (current(t, conf).num % (current(t, conf).den * conf.interval)) = 0

\* variant of IsDue: only the first multiple of the interval is due
IsDue_FirstOnly(t, conf) ==
    t # 0 /\ current(t, conf).num = current(t, conf).den * conf.interval

\* line 206: time != 0 and current % interval == 0.  With fps, interval > 0
\* the float num/fps is a multiple of interval exactly when num is a
\* multiple of fps * interval.
IsDue(t, conf) ==
    t # 0 /\ (current(t, conf).num % (current(t, conf).den * conf.interval)) = 0

\* lines 211-215: wall clock on camera, else int(current), as the f-string
\* of line 217 renders it
time_format(t, conf, clock) ==
    IF conf.camera THEN clock
    ELSE ToString(current(t, conf).num \div current(t, conf).den)

\* lines 216-218: the text of the row appended to the file
Row(t, conf, hist, clock) ==
    time_format(t, conf, clock) \o ","
        \o JoinComma([b \in 1 .. Len(hist) |-> ToString(get_value(hist[b]).val)])
        \o "\n"

\* variant of TimeAfterWrite: the reset on camera left out
TimeAfterWrite_NoReset(t, conf) == t

\* variant of TimeAfterWrite: the reset on camera off by one
TimeAfterWrite_ResetToOne(t, conf) == IF conf.camera THEN 1 ELSE t

\* lines 220-222: self.time after a row was written
TimeAfterWrite(t, conf) == IF conf.camera THEN 0 ELSE t

\* TrackBox.save() on time t, configuration conf, histories hist and file lg:
\* the exception raised, self.time and the file when it ends.  The file is
\* opened (line 210), the row is built (get_value of every box) and then
\* written; a write that raises leaves what it wrote of the row and ends
\* save() before line 221.
save(t, conf, hist, lg, clock, fail) ==
    IF SaveRaises(t, conf)
    THEN [err |-> "ZeroDivisionError", time |-> t, log |-> lg]
    ELSE IF ~IsDue(t, conf)
    THEN [err |-> "none", time |-> t, log |-> lg]
    ELSE IF fail.at = "open"
    THEN [err |-> "OSError", time |-> t, log |-> lg]
    ELSE IF \E b \in 1 .. Len(hist) : get_value(hist[b]).err # "none"
    THEN [err |-> "ValueError", time |-> t, log |-> lg]
    ELSE IF fail.at = "write"
    THEN [err |-> "OSError", time |-> t,
          log |-> lg \o Written("row", Row(t, conf, hist, clock), fail)]
    ELSE [err |-> "none", time |-> TimeAfterWrite(t, conf),
          log |-> lg \o Written("row", Row(t, conf, hist, clock), fail)]

\* variant of TimeAfterSave: the increment left out
TimeAfterSave_NoIncrement(s) == s.time

\* lines 153-156: self.time when update() ends, s being the outcome of save();
\* an exception of save() leaves update() before line 156
TimeAfterSave(s) == IF s.err = "none" THEN s.time + 1 ELSE s.time

\* TrackBox.update(): every box ticks; when persistence is configured, save()
\* runs and, unless it raised, self.time += 1
Update(clock, fail) ==
    LET hist == [b \in BoxIds |-> Box_update(boxes[b], history[b], count[b])]
        s == save(time, save_conf, hist, log, clock, fail)
    IN  /\ history' = hist
        /\ count' = [b \in BoxIds |-> Box_reset(count[b])]
        /\ IF enabled
           THEN /\ err' = s.err
                /\ log' = s.log
                /\ time' = TimeAfterSave(s)
           ELSE /\ err' = "none"
                /\ UNCHANGED <<log, time>>
        /\ UNCHANGED <<built, boxes, enabled, save_conf>>

\* TrackBox.save() called by the caller itself, outside update(): before
\* config_save it raises AttributeError at line 203 (self.save_conf does not
\* exist); after it, it does what save() does, without a tick of the boxes
\* and without the increment of line 156
Save(clock, fail) ==
    LET s == save(time, save_conf, history, log, clock, fail)
    IN  /\ IF enabled
           THEN /\ err' = s.err
                /\ log' = s.log
                /\ time' = s.time
           ELSE /\ err' = "AttributeError"
                /\ UNCHANGED <<log, time>>
        /\ UNCHANGED <<built, boxes, count, history, enabled, save_conf>>

\* Box.check(pos) called on the one box b (lines 55-67)
BoxCheck(b, pos) ==
    LET th == tuple_handler(pos)
        raises == Len(boxes[b].xyxy) # 4 \/ th.err # "none"
    IN  /\ err' = IF raises THEN "ValueError" ELSE "none"
        /\ count' = IF raises THEN count
                    ELSE [count EXCEPT ![b] = Box_check(boxes[b], count[b], th.out)]
        /\ UNCHANGED <<built, boxes, history, enabled, save_conf, time, log>>

\* Box.update() called on the one box b (lines 69-71): only that box ticks
BoxUpdate(b) ==
    /\ history' = [history EXCEPT ![b] = Box_update(boxes[b], history[b], count[b])]
    /\ count' = [count EXCEPT ![b] = Box_reset(count[b])]
    /\ err' = "none"
    /\ UNCHANGED <<built, boxes, enabled, save_conf, time, log>>

\* Box.get_value() called on the one box b (lines 73-80): only its exception
\* is kept
BoxGetValue(b) ==
    /\ err' = get_value(history[b]).err
    /\ UNCHANGED <<built, boxes, count, history, enabled, save_conf, time, log>>

---------------------------------------------------------------------------
(* The inputs explored.                                                    *)

\* positions: pairs, ints (coerced to (n, n)) and a 3-tuple (malformed)
Positions ==
    [scalar : {FALSE}, v : Coord \X Coord]
        \cup [scalar : {TRUE}, v : {<<n>> : n \in Coord}]
        \cup {[scalar |-> FALSE, v |-> <<0, 0, 0>>]}

\* the positions check() is given under Spec: the shared corner, a point of
\* one box only, a point outside both, an int and the malformed 3-tuple
PositionsS ==
    { [scalar |-> FALSE, v |-> <<1, 1>>], [scalar |-> FALSE, v |-> <<0, 1>>],
      [scalar |-> FALSE, v |-> <<2, 1>>], [scalar |-> FALSE, v |-> <<3, 0>>],
      [scalar |-> TRUE, v |-> <<2>>],     [scalar |-> FALSE, v |-> <<0, 0, 0>>] }

\* no position: the observer's value when the last call was not a check()
NoPos == [scalar |-> FALSE, v |-> <<>>]

Intervals == 0 .. 2
Fpss == {0, 2}
Speeds == {0, 2}

\* number of pieces in the file that save() wrote, whole rows or not
Rows == Cardinality({i \in 1 .. Len(log) : log[i].kind = "row"})

\* check(pos) for a pos of P that takes no count above maxc; observed: the
\* observer records the call
CheckWithin(P, maxc, observed) ==
    \E pos \in P :
        /\ \A b \in BoxIds :
              tuple_handler(pos).err = "none" /\ Len(boxes[b].xyxy) = 4
                  /\ Contains(boxes[b].xyxy, tuple_handler(pos).out[1],
                              tuple_handler(pos).out[2])
                  => count[b] < maxc
        /\ Check(pos)
        /\ IF observed
           THEN lastPos' = pos /\ prevCount' = count
           ELSE UNCHANGED <<lastPos, prevCount>>

\* update() while time <= maxt and the file holds fewer than maxr data rows
UpdateWithin(maxt, maxr, Fails) ==
    /\ enabled => time <= maxt /\ Rows < maxr
    /\ \E clock \in Clock, fail \in Fails : Update(clock, fail)

\* the observer records the counts an update() call appends
ObserveFed ==
    /\ fed' = [b \in BoxIds |-> Append(fed[b], count[b])]
    /\ UNCHANGED <<calls, rowCalls, lastPos, prevCount>>

\* the observer counts an update() call made after config_save, and records
\* the call if it wrote a row
ObserveCalls ==
    /\ calls' = IF enabled THEN calls + 1 ELSE calls
    /\ rowCalls' = IF Len(log') = Len(log) + 1
                   THEN Append(rowCalls, calls') ELSE rowCalls
    /\ UNCHANGED <<fed, lastPos, prevCount>>

---------------------------------------------------------------------------
(* Spec: every method, on the two overlapping boxes; of the I/O failures,   *)
(* open() raising.                                                         *)

Init == Constructed(OverlapBoxes)

DoCheck ==
    /\ CheckWithin(PositionsS, MaxCount, FALSE)
    /\ UNCHANGED <<fed, calls, rowCalls>>

DoUpdate ==
    /\ UpdateWithin(MaxTime, MaxRows, {NoFail, OpenFail})
    /\ UNCHANGED observer

DoApply == Apply /\ UNCHANGED observer

\* config_save with every configuration, and one call whose open() raises
\* (its other arguments are then never used)
DoConfigSave ==
    /\ \/ \E interval \in Intervals, fps \in Fpss, speed \in Speeds,
             camera \in BOOLEAN :
             ConfigSave(interval, fps, speed, camera, NoFail)
       \/ ConfigSave(1, 2, 1, FALSE, OpenFail)
    /\ UNCHANGED observer

Next == DoCheck \/ DoUpdate \/ DoApply \/ DoConfigSave

Spec == Init /\ [][Next]_vars

---------------------------------------------------------------------------
(* SpecA: check() and update() on the single box (0,0)-(10,10) with        *)
(* smoothness 3; the observer records the counts fed to the history.       *)

\* largest Box.count explored under SpecA
MaxCountA == 8
\* number of update() calls explored under SpecA
MaxTicksA == 4

ScenarioABoxes == << [name |-> "a", xyxy |-> <<0, 0, 10, 10>>, maxlen |-> 3] >>

PositionsA ==
    { [scalar |-> FALSE, v |-> <<5, 5>>],  [scalar |-> FALSE, v |-> <<0, 10>>],
      [scalar |-> FALSE, v |-> <<11, 5>>], [scalar |-> FALSE, v |-> <<5, -1>>] }

InitA == Constructed(ScenarioABoxes)

CheckA ==
    /\ CheckWithin(PositionsA, MaxCountA, FALSE)
    /\ UNCHANGED <<fed, calls, rowCalls>>

UpdateA ==
    /\ \A b \in BoxIds : Len(fed[b]) < MaxTicksA
    /\ UpdateWithin(0, 0, {NoFail})
    /\ ObserveFed

NextA == CheckA \/ UpdateA

SpecA == InitA /\ [][NextA]_vars

---------------------------------------------------------------------------
(* SpecZ: check() and update() on the two overlapping boxes; the observer  *)
(* records the position and the counts before each check().                *)

CheckZ ==
    /\ CheckWithin(Positions, MaxCount, TRUE)
    /\ UNCHANGED <<fed, calls, rowCalls>>

UpdateZ ==
    /\ UpdateWithin(0, 0, {NoFail})
    /\ lastPos' = NoPos
    /\ prevCount' = count'
    /\ UNCHANGED <<fed, calls, rowCalls>>

NextZ == CheckZ \/ UpdateZ

SpecZ == Init /\ [][NextZ]_vars

---------------------------------------------------------------------------
(* SpecT: the persistence timing on one small box, over valid              *)
(* configurations that include fps=10, speed=1, interval=2.                *)

\* largest TrackBox.time at which update() is still called under SpecT, SpecC
MaxTimeT == 61
\* largest number of data rows in the file under SpecT, SpecC
MaxRowsT == 3

TinyBoxes == << [name |-> "a", xyxy |-> <<0, 0, 0, 0>>, maxlen |-> 1] >>

PositionsT == { [scalar |-> FALSE, v |-> <<0, 0>>], [scalar |-> FALSE, v |-> <<1, 0>>] }

ScenarioB == [interval |-> 2, fps |-> 10, speed |-> 1, camera |-> FALSE]
ScenarioC == [interval |-> 2, fps |-> 10, speed |-> 1, camera |-> TRUE]

\* valid configurations: the two scenarios and a grid of small ones
TimingConfs ==
    {ScenarioB, ScenarioC}
        \cup [interval : 1 .. 2, fps : 1 .. 3, speed : 1 .. 3, camera : BOOLEAN]

InitT == Constructed(TinyBoxes)

CheckT ==
    /\ CheckWithin(PositionsT, MaxCount, FALSE)
    /\ UNCHANGED <<fed, calls, rowCalls>>

UpdateT ==
    /\ UpdateWithin(MaxTimeT, MaxRowsT, {NoFail, OpenFail})
    /\ UNCHANGED observer

ConfigSaveT ==
    /\ \/ \E c \in TimingConfs :
             ConfigSave(c.interval, c.fps, c.speed, c.camera, NoFail)
       \/ ConfigSave(1, 2, 1, FALSE, OpenFail)
    /\ UNCHANGED observer

NextT == CheckT \/ UpdateT \/ ConfigSaveT

SpecT == InitT /\ [][NextT]_vars

---------------------------------------------------------------------------
(* SpecC: camera mode with fps=10, speed=1, interval=2, configured once,   *)
(* no call failing; the observer counts the update() calls.                *)

CheckC ==
    /\ CheckWithin(PositionsT, MaxCount, FALSE)
    /\ UNCHANGED <<fed, calls, rowCalls>>

UpdateC ==
    /\ UpdateWithin(MaxTimeT, MaxRowsT, {NoFail})
    /\ ObserveCalls

ConfigSaveC ==
    /\ ~enabled
    /\ ConfigSave(ScenarioC.interval, ScenarioC.fps, ScenarioC.speed,
                  ScenarioC.camera, NoFail)
    /\ UNCHANGED observer

NextC == CheckC \/ UpdateC \/ ConfigSaveC

SpecC == InitT /\ [][NextC]_vars

---------------------------------------------------------------------------
(* SpecF: persistence on one small box with every outcome of the file I/O: *)
(* open() raising, and a write raising after any number of bytes of its    *)
(* text reached the file.  Configured any number of times, on camera and   *)
(* off, with speed 2 and the intervals and fps of ConfsF.                  *)

\* the configurations of SpecF: a row is due at every call after the first
\* (interval 1, fps 2), or save() divides by zero (interval 0, fps 0)
ConfsF == [interval : {0, 1}, fps : {0, 2}, speed : {2}, camera : BOOLEAN]

CheckF ==
    /\ CheckWithin(PositionsT, MaxCount, FALSE)
    /\ UNCHANGED <<fed, calls, rowCalls>>

UpdateF ==
    /\ UpdateWithin(MaxTime, MaxRows, {NoFail} \cup Failures)
    /\ UNCHANGED observer

\* config_save with every configuration of ConfsF, and calls whose open() or
\* write raises, on camera and off (their other arguments are then never used)
ConfigSaveF ==
    /\ \/ \E c \in ConfsF :
             ConfigSave(c.interval, c.fps, c.speed, c.camera, NoFail)
       \/ \E camera \in BOOLEAN, fail \in Failures :
             ConfigSave(1, 2, 1, camera, fail)
    /\ UNCHANGED observer

NextF == CheckF \/ UpdateF \/ ConfigSaveF

SpecF == InitT /\ [][NextF]_vars

---------------------------------------------------------------------------
(* SpecD: the calls of SpecF and, beside them, the direct calls of         *)
(* TrackBox.save and of the methods of one Box, on one small box or on no  *)
(* box at all.  A caller that keeps to check, update, apply and            *)
(* config_save takes none of the direct steps: the properties below speak  *)
(* of such callers and name the other specifications.                      *)

InitD == \E bs \in {<< >>, TinyBoxes} : Constructed(bs)

CheckD ==
    /\ CheckWithin(PositionsT, MaxCount, FALSE)
    /\ UNCHANGED <<fed, calls, rowCalls>>

UpdateD ==
    /\ UpdateWithin(MaxTime, MaxRows, {NoFail} \cup Failures)
    /\ UNCHANGED observer

ApplyD == Apply /\ UNCHANGED observer

ConfigSaveD ==
    /\ \/ \E interval \in Intervals, fps \in Fpss, speed \in Speeds,
             camera \in BOOLEAN :
             ConfigSave(interval, fps, speed, camera, NoFail)
       \/ \E camera \in BOOLEAN, fail \in Failures :
             ConfigSave(1, 2, 1, camera, fail)
    /\ UNCHANGED observer

SaveD ==
    /\ enabled => Rows < MaxRows
    /\ \E clock \in Clock, fail \in {NoFail} \cup Failures : Save(clock, fail)
    /\ UNCHANGED observer

BoxCheckD ==
    /\ \E b \in BoxIds, pos \in PositionsT :
          count[b] < MaxCount /\ BoxCheck(b, pos)
    /\ UNCHANGED observer

BoxUpdateD ==
    /\ \E b \in BoxIds : BoxUpdate(b)
    /\ UNCHANGED observer

BoxGetValueD ==
    /\ \E b \in BoxIds : BoxGetValue(b)
    /\ UNCHANGED observer

NextD ==
    CheckD \/ UpdateD \/ ApplyD \/ ConfigSaveD
        \/ SaveD \/ BoxCheckD \/ BoxUpdateD \/ BoxGetValueD

SpecD == InitD /\ [][NextD]_vars

---------------------------------------------------------------------------
(* Steps, as the properties below name them.                               *)

\* the step ticked every box, as line 149 of update() does
Ticked ==
    /\ history' = [b \in BoxIds |-> Box_update(boxes[b], history[b], count[b])]
    /\ count' = [b \in BoxIds |-> Box_reset(count[b])]
    /\ UNCHANGED <<built, boxes, enabled, save_conf>>

\* the step is a TrackBox.update() call
UpdateStep ==
    /\ Ticked
    /\ \E clock \in Clock, fail \in {NoFail} \cup Failures : Update(clock, fail)

\* the step appended one piece to the file: a row, or what a write that
\* raised left of it
RowWritten == Len(log') = Len(log) + 1 /\ SubSeq(log', 1, Len(log)) = log

\* the text of the last piece of the file after the step
LastText == log'[Len(log')].text

\* text s begins with text p
StartsWith(s, p) == Len(s) >= Len(p) /\ SubSeq(s, 1, Len(p)) = p

\* text s is a whole line
EndsLine(s) == Len(s) >= 1 /\ SubSeq(s, Len(s), Len(s)) = "\n"

\* the position of the first comma of s at or after i, 0 if there is none
RECURSIVE FirstComma(_, _)
FirstComma(s, i) ==
    IF i > Len(s) THEN 0
    ELSE IF SubSeq(s, i, i) = "," THEN i
    ELSE FirstComma(s, i + 1)

\* the fields of the text s, split at its commas
RECURSIVE Split(_)
Split(s) ==
    LET c == FirstComma(s, 1)
    IN  IF c = 0 THEN <<s>>
        ELSE <<SubSeq(s, 1, c - 1)>> \o Split(SubSeq(s, c + 1, Len(s)))

\* the fields of the whole line s, its line ending left out
LineFields(s) == Split(SubSeq(s, 1, Len(s) - 1))

\* s is the decimal numeral of a natural number
IsNumeral(s) ==
    /\ Len(s) >= 1
    /\ \A i \in 1 .. Len(s) :
          SubSeq(s, i, i) \in {"0", "1", "2", "3", "4", "5", "6", "7", "8", "9"}
    /\ Len(s) > 1 => SubSeq(s, 1, 1) # "0"

\* the last piece of the file after the step is stamped st: the piece of a
\* write that returned begins with st and a comma, the piece a write that
\* raised left is the beginning of such a text
Stamped(st) ==
    /\ StartsWith(LastText, st \o ",") \/ StartsWith(st \o ",", LastText)
    /\ err' = "none" => StartsWith(LastText, st \o ",")

---------------------------------------------------------------------------
(* Properties.                                                             *)

\* C1: off camera, an update() call appends a row if and only if time (its
\* value before the call's increment) is not 0 and time * speed / fps is an
\* exact multiple of interval (and the append does not raise), and the row's
\* timestamp is the integer time * speed / fps; with fps=10, speed=1,
\* interval=2 rows are written at time 20, 40, 60 with timestamps 2, 4, 6 and
\* at no other call.
C1_RowIffDue ==
    [][ (enabled /\ ~save_conf.camera /\ UpdateStep) =>
          LET n == time * save_conf.speed
              due == /\ time # 0
                     /\ \E k \in 0 .. n : n = k * save_conf.interval * save_conf.fps
          IN  /\ RowWritten => due /\ Stamped(ToString(n \div save_conf.fps))
              /\ ~RowWritten => log' = log
              /\ (due /\ err' # "OSError") => RowWritten
              /\ save_conf = ScenarioB =>
                    /\ RowWritten =>
                          \E k \in 1 .. 3 : time = 20 * k /\ Stamped(ToString(2 * k))
                    /\ (time \in {20, 40, 60} /\ err' # "OSError") => RowWritten
      ]_vars

\* C1 witness: fps=10, speed=1, interval=2 off camera, after the call at
\* time 60: the file holds the rows stamped 2, 4, 6.
C1_Witness ==
    /\ enabled /\ save_conf = ScenarioB /\ time = 61
    /\ Rows = 3
    /\ LineFields(log[2].text)[1] = "2" /\ LineFields(log[3].text)[1] = "4"
    /\ LineFields(log[4].text)[1] = "6"

\* C2: on camera, an update() call whose row write succeeded ends with
\* time = 1 (reset to 0 by save(), then incremented); an update() call that
\* wrote no row ends with time + 1, and one that raised, whatever its write
\* left in the file, with time as it was; no other call but a config_save that
\* returns changes it.
C2_CameraResetOnlyAfterWrite ==
    [][ (enabled /\ save_conf.camera) =>
          IF UpdateStep
          THEN IF RowWritten /\ err' = "none"
               THEN time' = 1 /\ EndsLine(LastText)
               ELSE time' = (IF err' = "none" THEN time + 1 ELSE time)
          ELSE time' = time \/ (time' = 0 /\ Rows' = 0 /\ err' = "none")
      ]_vars

\* C2 witness: on camera with fps=2, speed=2, interval=1 the row due at
\* time 1 was written whole by a call that returned, and time is 1.
C2_Witness ==
    /\ enabled /\ save_conf.camera
    /\ save_conf.fps = 2 /\ save_conf.speed = 2 /\ save_conf.interval = 1
    /\ err = "none" /\ Rows = 1 /\ time = 1
    /\ Len(log) = 2 /\ EndsLine(log[2].text)

\* C3 (as claimed): off camera, with valid configurations (interval >= 1,
\* fps >= 1) before and after, no call makes time smaller than it was.
C3_TimeNeverDecreases ==
    [][ ( /\ enabled /\ ~save_conf.camera /\ ~save_conf'.camera
          /\ save_conf.interval >= 1 /\ save_conf.fps >= 1
          /\ save_conf'.interval >= 1 /\ save_conf'.fps >= 1 )
        => time' >= time ]_vars

\* C4: on camera with fps=10, speed=1, interval=2, configured once and no
\* call failing: the first row is written by the update() call that finds
\* time = 20 (the 21st), every later row by the 20th call after the previous
\* row, and time counts the calls since the reset.
C4_CameraWindow ==
    (enabled /\ save_conf = ScenarioC) =>
        IF rowCalls = <<>>
        THEN time = calls /\ calls <= 20
        ELSE /\ rowCalls[1] = 21
             /\ \A i \in 1 .. Len(rowCalls) - 1 : rowCalls[i + 1] = rowCalls[i] + 20
             /\ calls - rowCalls[Len(rowCalls)] <= 19
             /\ time = calls - rowCalls[Len(rowCalls)] + 1
             /\ Rows = Len(rowCalls)

\* C4 witness: rows were written by the calls 21, 41 and 61.
C4_Witness == rowCalls = <<21, 41, 61>> /\ time = 1 /\ Rows = 3

\* C5: an update() call that finds time = 0 writes no row, whatever the
\* configuration.
C5_NoRowAtZero ==
    [][ (enabled /\ time = 0 /\ UpdateStep) => log' = log ]_vars

\* C5 witness: interval=1, fps=2, speed=2 (every time is a multiple): the
\* call at time 0 has returned and the file holds no row.
C5_Witness ==
    /\ enabled /\ err = "none" /\ time = 1 /\ Rows = 0
    /\ save_conf.interval = 1 /\ save_conf.fps = 2 /\ save_conf.speed = 2
    /\ \A b \in BoxIds : history[b] # <<>>

\* C6 (as claimed): get_value() of an empty history returns 0 and does not
\* raise.
C6_EmptyValueIsZero ==
    \A b \in BoxIds :
        history[b] = <<>> => get_value(history[b]) = [err |-> "none", val |-> 0]

\* C7: get_value() of a non-empty history is the sum of its entries divided
\* by their number, truncated; the box (0,0)-(10,10) with smoothness 3 fed
\* the counts 2, 4, 6, 8 has the values 2, 3, 4, 6.
C7_TruncatedMean ==
    \A b \in BoxIds :
        history[b] # <<>> =>
            LET v == get_value(history[b])
                n == Len(history[b])
            IN  /\ v.err = "none"
                /\ v.val * n <= Sum(history[b])
                /\ Sum(history[b]) < (v.val + 1) * n
                /\ fed[b] = <<2>> => v.val = 2
                /\ fed[b] = <<2, 4>> => v.val = 3
                /\ fed[b] = <<2, 4, 6>> => v.val = 4
                /\ fed[b] = <<2, 4, 6, 8>> => v.val = 6

\* C7 witness: the counts 2, 4, 6, 8 were fed and the value is 6.
C7_Witness ==
    /\ boxes = ScenarioABoxes /\ fed[1] = <<2, 4, 6, 8>>
    /\ get_value(history[1]).val = 6

\* C8: after the n-th update() the history is the last min(n, smoothness)
\* counts fed, in arrival order; the counts 2, 4, 6, 8 with smoothness 3 give
\* [2], [2,4], [2,4,6], [4,6,8].
C8_HistoryIsLastCounts ==
    \A b \in BoxIds :
        LET n == Len(fed[b])
            k == IF n < boxes[b].maxlen THEN n ELSE boxes[b].maxlen
        IN  /\ history[b] = SubSeq(fed[b], n - k + 1, n)
            /\ fed[b] = <<2>> => history[b] = <<2>>
            /\ fed[b] = <<2, 4>> => history[b] = <<2, 4>>
            /\ fed[b] = <<2, 4, 6>> => history[b] = <<2, 4, 6>>
            /\ fed[b] = <<2, 4, 6, 8>> => history[b] = <<4, 6, 8>>

\* C8 witness: the fourth update() evicted the oldest count.
C8_Witness ==
    /\ boxes = ScenarioABoxes /\ fed[1] = <<2, 4, 6, 8>>
    /\ history[1] = <<4, 6, 8>> /\ count[1] = 0

\* C9: no history is ever longer than the box's smoothness.
C9_HistoryBounded ==
    \A b \in BoxIds : Len(history[b]) <= boxes[b].maxlen

\* C9 witness: off camera three update() calls have returned since
\* config_save, more than either box's smoothness, and both histories are full.
C9_Witness ==
    /\ enabled /\ ~save_conf.camera /\ time = 3
    /\ \A b \in BoxIds : Len(history[b]) = boxes[b].maxlen

\* C10: check(pos) on a position (X, Y), an int n standing for (n, n), adds
\* exactly 1 to the count of every box with x1 <= X <= x2 and y1 <= Y <= y2,
\* and leaves every other count as it was.
C10_CheckCountsInclusive ==
    (lastPos # NoPos /\ Len(lastPos.v) < 3) =>
        LET X == lastPos.v[1]
            Y == IF lastPos.scalar THEN lastPos.v[1] ELSE lastPos.v[2]
        IN  \A b \in BoxIds :
                LET r == boxes[b].xyxy
                    inside == r[1] <= X /\ X <= r[3] /\ r[2] <= Y /\ Y <= r[4]
                IN  count[b] = prevCount[b] + (IF inside THEN 1 ELSE 0)

\* C10 witness: the position (1,1), a corner of both boxes, was counted by
\* both.
C10_Witness ==
    /\ lastPos = [scalar |-> FALSE, v |-> <<1, 1>>]
    /\ prevCount = <<0, 0>> /\ count = <<1, 1>>

\* the configuration is one the specification allows: interval >= 1, fps >= 1
ValidConf(conf) == conf.interval >= 1 /\ conf.fps >= 1

\* C11 (as claimed): config_save with interval <= 0 or fps <= 0 raises and
\* leaves persistence disabled, so whenever persistence is enabled its
\* configuration has interval >= 1 and fps >= 1.
C11_InvalidConfigRejected == enabled => ValidConf(save_conf)

\* C12 (as claimed): once persistence is enabled (with a valid configuration)
\* no call replaces the configuration, truncates the file or rewrites its
\* header, or sets time back to 0 other than by writing a row on camera.
C12_EnabledOnce ==
    [][ (enabled /\ ValidConf(save_conf)) =>
          /\ save_conf' = save_conf
          /\ Len(log') >= Len(log) /\ SubSeq(log', 1, Len(log)) = log
          /\ time' >= time \/ (save_conf.camera /\ RowWritten)
      ]_vars

\* C13 (as claimed): an update() call whose append raises OSError records no
\* row, the file being as it was, and leaves time as it was before the call,
\* on camera and off.
C13_FailedAppendKeepsTime ==
    [][ (enabled /\ UpdateStep /\ err' = "OSError") =>
          log' = log /\ time' = time ]_vars

\* C14: an update() call that returns while persistence is enabled ends with
\* time = 1 if it wrote a row on camera, and with time + 1 otherwise.
C14_TimeIncrementedByOne ==
    [][ (enabled /\ UpdateStep /\ err' = "none") =>
          time' = (IF save_conf.camera /\ RowWritten THEN 0 ELSE time) + 1 ]_vars

\* C14 witness: off camera with fps=2, speed=2, interval=1 the calls at time
\* 0 (no row) and 1 (a row) have both returned and time is 2.
C14_Witness ==
    /\ enabled /\ ~save_conf.camera /\ err = "none"
    /\ save_conf.fps = 2 /\ save_conf.speed = 2 /\ save_conf.interval = 1
    /\ time = 2 /\ Rows = 1

\* C15: no count is ever negative, and every update() call, whether it
\* returns or raises, leaves every count at 0.
C15_CountResetAndNonNegative ==
    /\ [](\A b \in BoxIds : count[b] >= 0)
    /\ [][ UpdateStep => \A b \in BoxIds : count'[b] = 0 ]_vars

\* C15 witness: an update() call appended the count 1 of box a and reset it.
C15_Witness ==
    /\ history[1] = <<1>> /\ count[1] = 0 /\ history[2] = <<0>> /\ ~enabled

\* C16 (as claimed): once persistence is enabled the file is one whole
\* header line, "time" on camera and "second" off it followed by the box names
\* in construction order, and then whole data rows only; every data row is a
\* timestamp (a clock reading on camera, an integer off it) followed by one
\* non-negative integer per box, and when a row is written its i-th value is
\* the truncated mean of the history of box i.
C16_LogFormat ==
    /\ [](enabled =>
            /\ Len(log) >= 1
            /\ log[1].kind = "header" /\ EndsLine(log[1].text)
            /\ LineFields(log[1].text) =
                  <<IF save_conf.camera THEN "time" ELSE "second">>
                      \o [b \in BoxIds |-> boxes[b].name]
            /\ \A i \in 2 .. Len(log) :
                  /\ log[i].kind = "row" /\ EndsLine(log[i].text)
                  /\ LET f == LineFields(log[i].text)
                     IN  /\ Len(f) = 1 + Len(boxes)
                         /\ IF save_conf.camera THEN f[1] \in Clock
                            ELSE IsNumeral(f[1])
                         /\ \A b \in BoxIds : IsNumeral(f[b + 1]))
    /\ [][ (enabled /\ RowWritten) =>
             /\ EndsLine(LastText)
             /\ Len(LineFields(LastText)) = 1 + Len(boxes)
             /\ \A b \in BoxIds :
                   /\ Len(history'[b]) > 0
                   /\ LineFields(LastText)[b + 1] =
                          ToString(Sum(history'[b]) \div Len(history'[b]))
       ]_vars

---------------------------------------------------------------------------
(* SpecK: construction from box entries with a missing or malformed        *)
(* corner, then check() and update().                                      *)

\* the entries of the second box: every key given or bottom_right missing,
\* top_left a 2-D or a 3-D point, bottom_right a 2-D or a 1-D point,
\* smoothness 1 or -1
EntriesK ==
    { [given |-> g, name |-> "b", top_left |-> tl, bottom_right |-> br,
       smoothness |-> sm] :
        g \in {RequiredKeys, RequiredKeys \ {"bottom_right"}},
        tl \in {<<1, 1>>, <<1, 1, 0>>},
        br \in {<<2, 2>>, <<2>>},
        sm \in {1, -1} }

EntryA ==
    [given |-> RequiredKeys, name |-> "a", top_left |-> <<0, 0>>,
     bottom_right |-> <<1, 1>>, smoothness |-> 2]

\* TrackBox.__init__(default_config, boxes) on the entries <<EntryA, e>>: the
\* boxes are made in order, and the first Box.__init__ that raises ends it
InitK ==
    \E e \in EntriesK :
        LET made == [i \in 1 .. 2 |-> Box_init(<<EntryA, e>>[i])]
            failed == {i \in 1 .. 2 : made[i].err # "none"}
        IN  IF failed # {}
            THEN NotConstructed(made[CHOOSE i \in failed : \A j \in failed : i <= j].err)
            ELSE Constructed([i \in 1 .. 2 |-> made[i].box])

CheckK ==
    /\ built
    /\ CheckWithin(PositionsS, MaxCount, FALSE)
    /\ UNCHANGED <<fed, calls, rowCalls>>

UpdateK ==
    /\ built
    /\ UpdateWithin(0, 0, {NoFail})
    /\ UNCHANGED observer

NextK == CheckK \/ UpdateK

SpecK == InitK /\ [][NextK]_vars

\* C17 (as claimed): an object is constructed only from entries whose corners
\* are both given and both 2-D points.
C17_MalformedEntryNotConstructed ==
    built => \A b \in BoxIds : Len(boxes[b].pt1) = 2 /\ Len(boxes[b].pt2) = 2

---------------------------------------------------------------------------
\* C18 (as claimed): an update() whose append fails leaves the whole state as
\* it was before the call: every occupancy history, every frame count and the
\* update counter.
C18_FailedAppendChangesNothing ==
    [][ (enabled /\ UpdateStep /\ err' = "OSError") =>
          history' = history /\ count' = count /\ time' = time ]_vars

\* C19: update() writes a row only after it has ticked every box, so the row
\* is computed from non-empty histories whose last entry is the count of the
\* frame being closed, and get_value never meets an empty history.  A write
\* that returned wrote the whole row, the value of every box in order; what
\* a write that raised left is the beginning of that row.
C19_RowAfterEveryTick ==
    [][ UpdateStep =>
          /\ err' # "ValueError"
          /\ (enabled /\ RowWritten) =>
                /\ log'[Len(log')].kind = "row"
                /\ \A b \in BoxIds :
                      /\ Len(history'[b]) >= 1
                      /\ history'[b][Len(history'[b])] = count[b]
                /\ LET values == [b \in BoxIds |->
                                    ToString(Sum(history'[b]) \div Len(history'[b]))]
                       stamps == IF save_conf.camera THEN Clock
                                 ELSE {ToString((time * save_conf.speed)
                                                   \div save_conf.fps)}
                   IN  \E st \in stamps :
                          /\ StartsWith(st \o "," \o JoinComma(values) \o "\n",
                                        LastText)
                          /\ err' = "none" =>
                                /\ EndsLine(LastText)
                                /\ LineFields(LastText) = <<st>> \o values
      ]_vars

\* C19 witness: the row with the values 1 and 0 was written from the
\* histories 1, 1 and 0.
C19_Witness ==
    /\ enabled /\ err = "none" /\ Rows = 1 /\ Len(log) = 2
    /\ history = <<<<1, 1>>, <<0>>>>
    /\ EndsLine(log[2].text)
    /\ LineFields(log[2].text)[2] = "1" /\ LineFields(log[2].text)[3] = "0"

---------------------------------------------------------------------------
(* SpecW: one valid configuration per behaviour, either timestamp policy,  *)
(* configured once, no call failing, update() called again and again; the  *)
(* observer counts the update() calls.                                     *)

\* the valid configurations, and the same grid with a speed the clamp raises
ConfsW ==
    TimingConfs \cup [interval : 1 .. 2, fps : 1 .. 3, speed : {0}, camera : BOOLEAN]

CheckW ==
    /\ CheckWithin(PositionsT, MaxCount, FALSE)
    /\ UNCHANGED <<fed, calls, rowCalls>>

UpdateW ==
    /\ UpdateWithin(MaxTimeT, MaxRowsT, {NoFail})
    /\ ObserveCalls

ConfigSaveW ==
    /\ ~enabled
    /\ \E c \in ConfsW : ConfigSave(c.interval, c.fps, c.speed, c.camera, NoFail)
    /\ UNCHANGED observer

NextW == CheckW \/ UpdateW \/ ConfigSaveW

\* update() keeps being called
SpecW == InitT /\ [][NextW]_vars /\ WF_vars(UpdateW)

\* the update() calls made since the last row, or since config_save
SinceRow == calls - (IF rowCalls = <<>> THEN 0 ELSE rowCalls[Len(rowCalls)])

\* C20: with interval >= 1, fps >= 1 and the clamped speed, on and off camera,
\* an update() call writes a row exactly when time is not 0 and time * speed
\* is a multiple of fps * interval; no run of update() calls without a row is
\* longer than fps * interval, so every window of fps * interval + 1
\* consecutive calls holds a row; and while update() keeps being called the
\* next row does come.
C20_TriggerNeverPerpetuallyFalse ==
    /\ [](enabled =>
            /\ save_conf.interval >= 1 /\ save_conf.fps >= 1 /\ save_conf.speed >= 1
            /\ SinceRow <= save_conf.fps * save_conf.interval)
    /\ [][ (enabled /\ UpdateStep) =>
             (RowWritten <=>
                 /\ time # 0
                 /\ (time * save_conf.speed) % (save_conf.fps * save_conf.interval) = 0)
       ]_vars
    /\ \A n \in 0 .. MaxRowsT - 1 :
           (enabled /\ Rows = n
                /\ time + save_conf.fps * save_conf.interval <= MaxTimeT)
             ~> (Rows > n)

\* C20 witness: off camera with fps=3, speed=2, interval=2 (a row at every
\* third call although fps * interval = 6), rows written by the calls 4, 7, 10.
C20_Witness ==
    /\ enabled
    /\ save_conf = [interval |-> 2, fps |-> 3, speed |-> 2, camera |-> FALSE]
    /\ rowCalls = <<4, 7, 10>>

====
